---- MODULE Spec2Model ----
(***************************************************************************)
(* SCD versioning: the three benchmark helpers of comparative_benchmark.py *)
(* (SCDHelper on jobs, TimestampVersioningHelper on jobs_ts,               *)
(* FlagVersioningHelper on jobs_flag) and the Django helpers of            *)
(* scd_helpers.py / repos.py on the Job model.                             *)
(*                                                                         *)
(* The store is PostgreSQL at READ COMMITTED: every statement reads the    *)
(* rows committed when it starts plus its own transaction's writes; an     *)
(* UPDATE that meets a row locked by another transaction waits and then    *)
(* re-checks its WHERE clause on the row's latest version; an INSERT whose *)
(* key is held by another transaction's uncommitted insert waits for it.   *)
(* psycopg2 opens a transaction at the first statement of a connection and *)
(* keeps it open until commit(); Django runs each statement in autocommit. *)
(*                                                                         *)
(* setup_database declares, for each benchmark table, uid UNIQUE PRIMARY   *)
(* KEY and PRIMARY KEY (id, <discriminator>); the model enforces both      *)
(* declared keys.                                                          *)
(***************************************************************************)
EXTENDS Integers, Sequences, FiniteSets, TLC

\* ------------------------------------------------------------ bounds
\* No call starts once its table holds this many rows (committed or in flight).
MaxRows == 4
\* The clock datetime.now() reads stops advancing here.
MaxClock == 2
\* The Django helper is called at most this many times.
MaxCalls == 3

\* ------------------------------------------------------------ data
Conns == {"c1", "c2"}
\* The ids seed_data / setup_test_data insert, and one id that has no row.
Ids == {"job1", "job2"}
CallIds == Ids \cup {"job9"}
Companies == {"comp1", "comp2"}

EmptyMap == [k \in {} |-> 0]

\* dict.get(key, default)
Get(d, key, default) == IF key \in DOMAIN d THEN d[key] ELSE default

Max(S) == CHOOSE m \in S : \A n \in S : n <= m

\* The updates maps callers pass to the benchmark helpers.  The first is
\* run_benchmarks's; the others name other columns, the discriminator, the
\* keys, or no column of the table at all.
UpdatesSet ==
  { EmptyMap,
    [status |-> "updated", rate |-> 150],
    [title |-> "Lead"],
    [version |-> 0],
    [id |-> "job2"],
    [uid |-> 1],
    [bogus |-> 1] }

\* information_schema.columns of jobs, by ordinal position.
jobs_columns ==
  <<"id", "version", "uid", "status", "rate", "title", "company_id", "contractor_id">>

Range(s) == {s[i] : i \in DOMAIN s}

VARIABLES
  jobs,        \* committed rows of table jobs (SCDHelper, DirectSQLHelper)
  jobs_ts,     \* committed rows of table jobs_ts
  jobs_flag,   \* committed rows of table jobs_flag
  JobObjects,  \* rows of the Django model Job (autocommit)
  clock,       \* what datetime.now() returns
  pc,          \* per connection: the statement its current call is at
  call,        \* per connection: [helper, id, updates] of the current/last call
  loc,         \* per connection: the call's local variables
  txn,         \* per connection: transaction status and uncommitted writes
  result,      \* per connection: how the last call ended
  calls,       \* number of create_new_scd_version calls made so far
  bench        \* run_benchmarks: the helper whose turn it is, and the (id, updates) of the round

vars == <<jobs, jobs_ts, jobs_flag, JobObjects, clock, pc, call, loc, txn, result, calls, bench>>

\* ------------------------------------------------------------ seeding
\* seed_data: one row per id in each table, version 1 / now / is_current.
SeedJobs ==
  { [id |-> "job1", version |-> 1, uid |-> 1, status |-> "active", rate |-> 100,
     title |-> "Engineer", company_id |-> "comp1", contractor_id |-> "cont1"],
    [id |-> "job2", version |-> 1, uid |-> 2, status |-> "active", rate |-> 100,
     title |-> "Engineer", company_id |-> "comp1", contractor_id |-> "cont1"] }

SeedJobsTs ==
  { [id |-> "job1", created_at |-> 0, uid |-> 1, status |-> "active", rate |-> 100,
     title |-> "Engineer", company_id |-> "comp1", contractor_id |-> "cont1"],
    [id |-> "job2", created_at |-> 0, uid |-> 2, status |-> "active", rate |-> 100,
     title |-> "Engineer", company_id |-> "comp1", contractor_id |-> "cont1"] }

SeedJobsFlag ==
  { [id |-> "job1", version |-> 1, uid |-> 1, is_current |-> TRUE, status |-> "active",
     rate |-> 100, title |-> "Engineer", company_id |-> "comp1", contractor_id |-> "cont1"],
    [id |-> "job2", version |-> 1, uid |-> 2, is_current |-> TRUE, status |-> "active",
     rate |-> 100, title |-> "Engineer", company_id |-> "comp1", contractor_id |-> "cont1"] }

\* setup_test_data: job1 at versions 1 (extended) and 2 (active), job2 at
\* version 1 (active).  rate and title are not given there; title takes the
\* CharField default, rate is written as 0.
setup_test_data ==
  { [uid |-> 1, id |-> "job1", version |-> 1, status |-> "extended", rate |-> 0,
     title |-> "", company_id |-> "comp1", contractor_id |-> "cont1"],
    [uid |-> 2, id |-> "job1", version |-> 2, status |-> "active", rate |-> 0,
     title |-> "", company_id |-> "comp1", contractor_id |-> "cont1"],
    [uid |-> 3, id |-> "job2", version |-> 1, status |-> "active", rate |-> 0,
     title |-> "", company_id |-> "comp1", contractor_id |-> "cont2"] }

\* ------------------------------------------------------------ connections
\* setup_test_data, lines 44-72: the timelogs and the payment line items,
\* each with the uid of the Job row it references (job_uid).  No call of
\* create_new_scd_version(Job, ...) writes these tables.
SeedTimelogs ==
  { [uid |-> "tl1_v1", id |-> "tl1", version |-> 1, job_uid |-> 2],
    [uid |-> "tl1_v2", id |-> "tl1", version |-> 2, job_uid |-> 2],
    [uid |-> "tl2_v1", id |-> "tl2", version |-> 1, job_uid |-> 3] }

SeedPaymentLineItems ==
  { [uid |-> "pli1_v1", id |-> "pli1", version |-> 1, job_uid |-> 2],
    [uid |-> "pli1_v2", id |-> "pli1", version |-> 2, job_uid |-> 2] }

NoCall == [helper |-> "none", id |-> "none", updates |-> EmptyMap]

\* latest / original: the fetchone() of a SELECT, {} for None.
\* targets: the rows an UPDATE's scan found.  new_row: the row the call inserted.
NoLoc == [latest |-> {}, max_version |-> 0, original |-> {}, targets |-> {}, new_row |-> {}]

\* status is psycopg2's transaction status: idle, intrans, inerror.
\* cleared: uids of jobs_flag rows whose is_current this transaction set false
\* (it holds their row locks).
NoTxn == [status |-> "idle", jobs |-> {}, jobs_ts |-> {}, jobs_flag |-> {}, cleared |-> {}]

\* How a call ended: which helper was called for which id, and "ok" or the
\* exception it raised.
Outcome(helper, id_value, kind) == [helper |-> helper, id |-> id_value, kind |-> kind]

NoResult == Outcome("none", "none", "none")

\* run_benchmarks before its first call: SCDHelper is first, no call has failed.
NoBench == [next |-> "scd", id |-> "none", updates |-> EmptyMap, ok |-> TRUE]

Init ==
  /\ jobs = SeedJobs
  /\ jobs_ts = SeedJobsTs
  /\ jobs_flag = SeedJobsFlag
  /\ JobObjects = setup_test_data
  /\ clock = 0
  /\ pc = [c \in Conns |-> "idle"]
  /\ call = [c \in Conns |-> NoCall]
  /\ loc = [c \in Conns |-> NoLoc]
  /\ txn = [c \in Conns |-> NoTxn]
  /\ result = [c \in Conns |-> NoResult]
  /\ calls = 0
  /\ bench = NoBench

\* The first statement on a connection opens a transaction.
Begun(t) == [t EXCEPT !.status = "intrans"]

\* Variant of ClearFlag in which the UPDATE writes nothing.
ClearFlagNoop(r, cleared) == r

\* UPDATE ... SET is_current = false, applied to one row.
ClearFlag(r, cleared) ==
  IF r.uid \in cleared THEN [r EXCEPT !.is_current = FALSE] ELSE r

\* What a statement of connection c reads: the committed rows and the
\* connection's own uncommitted writes.
JobsView(c) == jobs \cup txn[c].jobs
JobsTsView(c) == jobs_ts \cup txn[c].jobs_ts
JobsFlagView(c) == {ClearFlag(r, txn[c].cleared) : r \in jobs_flag \cup txn[c].jobs_flag}

\* uuid.uuid4(): a value no row, committed or not, carries.
AllUids ==
  {r.uid : r \in jobs \cup jobs_ts \cup jobs_flag}
    \cup UNION {{r.uid : r \in txn[c].jobs \cup txn[c].jobs_ts \cup txn[c].jobs_flag} : c \in Conns}
uuid4 == 1 + Max(AllUids \cup {0})

InFlight == Cardinality({c \in Conns : pc[c] # "idle"})

\* conn.commit(): the transaction's writes become the committed state; a
\* failed transaction is rolled back instead.
CommitTxn(c) ==
  /\ txn' = [txn EXCEPT ![c] = NoTxn]
  /\ IF txn[c].status = "intrans"
       THEN /\ jobs' = jobs \cup txn[c].jobs
            /\ jobs_ts' = jobs_ts \cup txn[c].jobs_ts
            /\ jobs_flag' = JobsFlagView(c)
       ELSE UNCHANGED <<jobs, jobs_ts, jobs_flag>>

\* conn.close() (or the process ending) with a transaction open: rolled back.
Close(c) ==
  /\ pc[c] = "idle"
  /\ txn[c].status # "idle"
  /\ txn' = [txn EXCEPT ![c] = NoTxn]
  /\ UNCHANGED <<jobs, jobs_ts, jobs_flag, JobObjects, clock, pc, call, loc, result, calls>>

\* A call raises: the exception leaves the call; the transaction stays as it is.
Raise(c, helper, id_value, kind) ==
  /\ pc' = [pc EXCEPT ![c] = "idle"]
  /\ result' = [result EXCEPT ![c] = Outcome(helper, id_value, kind)]
  /\ call' = [call EXCEPT ![c] = NoCall]
  /\ loc' = [loc EXCEPT ![c] = NoLoc]

\* An exception raised in the client while a call is under way (psycopg2
\* cannot adapt a parameter of the statement, an interrupt): no statement
\* fails in the store, and create_new_version has no except or finally
\* clause, so the exception leaves the call with the transaction still open.
ClientError(c) ==
  /\ pc[c] # "idle"
  /\ Raise(c, call[c].helper, call[c].id, "ClientError")
  /\ UNCHANGED <<jobs, jobs_ts, jobs_flag, JobObjects, clock, txn, calls>>

\* A call returns.
Return(c) ==
  /\ pc' = [pc EXCEPT ![c] = "idle"]
  /\ result' = [result EXCEPT ![c] = Outcome(call[c].helper, call[c].id, "ok")]
  /\ call' = [call EXCEPT ![c] = NoCall]
  /\ loc' = [loc EXCEPT ![c] = NoLoc]

\* A call moves on to its next statement.
Goto(c, label) ==
  /\ pc' = [pc EXCEPT ![c] = label]
  /\ UNCHANGED result

\* ------------------------------------------------------------ SCDHelper
\* Variant of the keys below in which only uid is a key.
VersionKeyConflictUidOnly(r, s) == r.uid = s.uid

\* The keys of jobs and jobs_flag: uid, and (id, version).
VersionKeyConflict(r, s) ==
  r.uid = s.uid \/ (r.id = s.id /\ r.version = s.version)

\* ORDER BY version DESC LIMIT 1
LatestByVersion(rows, id_value) ==
  {r \in rows : r.id = id_value /\ \A s \in rows : s.id = id_value => s.version <= r.version}

\* for col, value in updates.items(): if col in columns: new_data[col_idx] = value
ApplyUpdates(new_data, updates, columns) ==
  [col \in DOMAIN new_data |->
     IF col \in DOMAIN updates /\ col \in Range(columns) THEN updates[col] ELSE new_data[col]]

\* Variant of ScdNewData that sets the new uid before applying the updates.
ScdNewDataUidFirst(latest, updates, uid) ==
  ApplyUpdates([latest EXCEPT !.version = latest.version + 1, !.uid = uid], updates, jobs_columns)

\* SCDHelper.create_new_version, lines 46-59: copy latest, bump the version,
\* apply the updates, then set a new uid.
ScdNewData(latest, updates, uid) ==
  [ApplyUpdates([latest EXCEPT !.version = latest.version + 1], updates, jobs_columns)
     EXCEPT !.uid = uid]

\* cursor.execute(SELECT ... ORDER BY version DESC LIMIT 1); fetchone();
\* raise if not latest
ScdSelect(c, id_value, updates) ==
  /\ pc[c] = "idle"
  /\ Cardinality(jobs) + InFlight < MaxRows
  /\ \/ /\ txn[c].status = "inerror"
        /\ Raise(c, "scd", id_value, "InFailedSqlTransaction")
        /\ UNCHANGED txn
     \/ /\ txn[c].status # "inerror"
        /\ txn' = [txn EXCEPT ![c] = Begun(@)]
        /\ LET latest == LatestByVersion(JobsView(c), id_value)
           IN IF latest = {}
                THEN Raise(c, "scd", id_value, "NotFound")
                ELSE /\ Goto(c, "scd_insert")
                     /\ call' = [call EXCEPT ![c] =
                                   [helper |-> "scd", id |-> id_value, updates |-> updates]]
                     /\ loc' = [loc EXCEPT ![c] = [NoLoc EXCEPT !.latest = latest]]
  /\ UNCHANGED <<jobs, jobs_ts, jobs_flag, JobObjects, clock, calls>>

\* lines 43-63: derive new_data and INSERT it.  The insert waits while
\* another transaction holds its key uncommitted.
ScdInsert(c) ==
  /\ pc[c] = "scd_insert"
  /\ LET latest == CHOOSE r \in loc[c].latest : TRUE
         new_data == ScdNewData(latest, call[c].updates, uuid4)
     IN /\ \A d \in Conns \ {c} : \A s \in txn[d].jobs : ~VersionKeyConflict(new_data, s)
        /\ IF \E s \in JobsView(c) : VersionKeyConflict(new_data, s)
             THEN /\ txn' = [txn EXCEPT ![c] = [NoTxn EXCEPT !.status = "inerror"]]
                  /\ Raise(c, call[c].helper, call[c].id, "UniqueViolation")
             ELSE /\ txn' = [txn EXCEPT ![c].jobs = @ \cup {new_data}]
                  /\ Goto(c, "scd_commit")
                  /\ loc' = [loc EXCEPT ![c].new_row = {new_data}]
                  /\ UNCHANGED call
  /\ UNCHANGED <<jobs, jobs_ts, jobs_flag, JobObjects, clock, calls>>

\* self.conn.commit(); cursor.close()
ScdCommit(c) ==
  /\ pc[c] = "scd_commit"
  /\ CommitTxn(c)
  /\ Return(c)
  /\ UNCHANGED <<JobObjects, clock, calls>>

\* ------------------------------------------------------------ DirectSQLHelper
\* Variant of DirectNewRow that skips one version number.
DirectNewRowSkipVersion(src, new_version, updates, uid) ==
  [id |-> src.id, version |-> new_version + 1, uid |-> uid,
   status |-> Get(updates, "status", src.status),
   rate |-> Get(updates, "rate", src.rate),
   title |-> src.title, company_id |-> src.company_id,
   contractor_id |-> src.contractor_id]

\* Variant of DirectNewRow that always keeps the rate of src.
DirectNewRowKeepsRate(src, new_version, updates, uid) ==
  [id |-> src.id, version |-> new_version, uid |-> uid,
   status |-> Get(updates, "status", src.status),
   rate |-> src.rate,
   title |-> src.title, company_id |-> src.company_id,
   contractor_id |-> src.contractor_id]

\* lines 101-114: the row the INSERT ... SELECT derives from the row src it
\* selects: status and rate from updates when given (IS NOT NULL), every
\* other column from src.
DirectNewRow(src, new_version, updates, uid) ==
  [id |-> src.id, version |-> new_version, uid |-> uid,
   status |-> Get(updates, "status", src.status),
   rate |-> Get(updates, "rate", src.rate),
   title |-> src.title, company_id |-> src.company_id,
   contractor_id |-> src.contractor_id]

\* lines 92-94: SELECT COALESCE(MAX(version), 0); new_version = max_version + 1
DirectSelectMax(c, id_value, updates) ==
  /\ pc[c] = "idle"
  /\ Cardinality(jobs) + InFlight < MaxRows
  /\ \/ /\ txn[c].status = "inerror"
        /\ Raise(c, "direct", id_value, "InFailedSqlTransaction")
        /\ UNCHANGED txn
     \/ /\ txn[c].status # "inerror"
        /\ txn' = [txn EXCEPT ![c] = Begun(@)]
        /\ Goto(c, "direct_insert")
        /\ call' = [call EXCEPT ![c] =
                     [helper |-> "direct", id |-> id_value, updates |-> updates]]
        /\ loc' = [loc EXCEPT ![c] = [NoLoc EXCEPT !.max_version =
                     Max({r.version : r \in {s \in JobsView(c) : s.id = id_value}} \cup {0})]]
  /\ UNCHANGED <<jobs, jobs_ts, jobs_flag, JobObjects, clock, calls>>

\* lines 101-114: INSERT ... SELECT ... WHERE id = %s AND version = %s.  It
\* inserts one row for each row it selects, none when there is none, and
\* waits while another transaction holds the new row's key uncommitted.
DirectInsert(c) ==
  /\ pc[c] = "direct_insert"
  /\ LET selected == {r \in JobsView(c) :
                       r.id = call[c].id /\ r.version = loc[c].max_version}
         new_rows == {DirectNewRow(src, loc[c].max_version + 1, call[c].updates, uuid4) :
                        src \in selected}
     IN /\ \A d \in Conns \ {c} : \A s \in txn[d].jobs : \A r \in new_rows :
             ~VersionKeyConflict(r, s)
        /\ IF \E s \in JobsView(c) : \E r \in new_rows : VersionKeyConflict(r, s)
             THEN /\ txn' = [txn EXCEPT ![c] = [NoTxn EXCEPT !.status = "inerror"]]
                  /\ Raise(c, call[c].helper, call[c].id, "UniqueViolation")
             ELSE /\ txn' = [txn EXCEPT ![c].jobs = @ \cup new_rows]
                  /\ Goto(c, "direct_commit")
                  /\ loc' = [loc EXCEPT ![c].original = selected, ![c].new_row = new_rows]
                  /\ UNCHANGED call
  /\ UNCHANGED <<jobs, jobs_ts, jobs_flag, JobObjects, clock, calls>>

\* self.conn.commit(); cursor.close()
DirectCommit(c) ==
  /\ pc[c] = "direct_commit"
  /\ CommitTxn(c)
  /\ Return(c)
  /\ UNCHANGED <<JobObjects, clock, calls>>

\* ------------------------------------------------------------ TimestampVersioningHelper
\* The keys of jobs_ts: uid, and (id, created_at).
TimestampKeyConflict(r, s) ==
  r.uid = s.uid \/ (r.id = s.id /\ r.created_at = s.created_at)

\* ORDER BY created_at DESC LIMIT 1
LatestByCreatedAt(rows, id_value) ==
  {r \in rows : r.id = id_value /\ \A s \in rows : s.id = id_value => s.created_at <= r.created_at}

\* lines 154-159: the VALUES of the insert.
TsNewRow(id_value, latest, updates, now, uid) ==
  [id |-> id_value, created_at |-> now, uid |-> uid,
   status |-> Get(updates, "status", latest.status),
   rate |-> Get(updates, "rate", latest.rate),
   title |-> latest.title, company_id |-> latest.company_id,
   contractor_id |-> latest.contractor_id]

\* time passes
Tick ==
  /\ clock < MaxClock
  /\ clock' = clock + 1
  /\ UNCHANGED <<jobs, jobs_ts, jobs_flag, JobObjects, pc, call, loc, txn, result, calls>>

\* cursor.execute(SELECT ... ORDER BY created_at DESC LIMIT 1); fetchone();
\* raise if not latest
TsSelect(c, id_value, updates) ==
  /\ pc[c] = "idle"
  /\ Cardinality(jobs_ts) + InFlight < MaxRows
  /\ \/ /\ txn[c].status = "inerror"
        /\ Raise(c, "ts", id_value, "InFailedSqlTransaction")
        /\ UNCHANGED txn
     \/ /\ txn[c].status # "inerror"
        /\ txn' = [txn EXCEPT ![c] = Begun(@)]
        /\ LET latest == LatestByCreatedAt(JobsTsView(c), id_value)
           IN IF latest = {}
                THEN Raise(c, "ts", id_value, "NotFound")
                ELSE /\ Goto(c, "ts_insert")
                     /\ call' = [call EXCEPT ![c] =
                                   [helper |-> "ts", id |-> id_value, updates |-> updates]]
                     /\ loc' = [loc EXCEPT ![c] = [NoLoc EXCEPT !.latest = latest]]
  /\ UNCHANGED <<jobs, jobs_ts, jobs_flag, JobObjects, clock, calls>>

\* lines 151-159: INSERT with datetime.now() and a new uid.
TsInsert(c) ==
  /\ pc[c] = "ts_insert"
  /\ LET latest == CHOOSE r \in loc[c].latest : TRUE
         new_row == TsNewRow(call[c].id, latest, call[c].updates, clock, uuid4)
     IN /\ \A d \in Conns \ {c} : \A s \in txn[d].jobs_ts : ~TimestampKeyConflict(new_row, s)
        /\ IF \E s \in JobsTsView(c) : TimestampKeyConflict(new_row, s)
             THEN /\ txn' = [txn EXCEPT ![c] = [NoTxn EXCEPT !.status = "inerror"]]
                  /\ Raise(c, call[c].helper, call[c].id, "UniqueViolation")
             ELSE /\ txn' = [txn EXCEPT ![c].jobs_ts = @ \cup {new_row}]
                  /\ Goto(c, "ts_commit")
                  /\ loc' = [loc EXCEPT ![c].new_row = {new_row}]
                  /\ UNCHANGED call
  /\ UNCHANGED <<jobs, jobs_ts, jobs_flag, JobObjects, clock, calls>>

\* self.conn.commit(); cursor.close()
TsCommit(c) ==
  /\ pc[c] = "ts_commit"
  /\ CommitTxn(c)
  /\ Return(c)
  /\ UNCHANGED <<JobObjects, clock, calls>>

\* ------------------------------------------------------------ FlagVersioningHelper
\* lines 207-210: the VALUES of the insert.
FlagNewRow(id_value, max_version, original, updates, uid) ==
  [id |-> id_value, version |-> max_version + 1, uid |-> uid, is_current |-> TRUE,
   status |-> Get(updates, "status", original.status),
   rate |-> Get(updates, "rate", original.rate),
   title |-> original.title, company_id |-> original.company_id,
   contractor_id |-> original.contractor_id]

\* WHERE id = %s AND is_current = true
IsCurrentOf(r, id_value) == r.id = id_value /\ r.is_current

\* cursor.execute("BEGIN")
FlagBegin(c, id_value, updates) ==
  /\ pc[c] = "idle"
  /\ Cardinality(jobs_flag) + InFlight < MaxRows
  /\ \/ /\ txn[c].status = "inerror"
        /\ Raise(c, "flag", id_value, "InFailedSqlTransaction")
        /\ UNCHANGED txn
     \/ /\ txn[c].status # "inerror"
        /\ txn' = [txn EXCEPT ![c] = Begun(@)]
        /\ Goto(c, "flag_update")
        /\ call' = [call EXCEPT ![c] =
                     [helper |-> "flag", id |-> id_value, updates |-> updates]]
        /\ loc' = [loc EXCEPT ![c] = NoLoc]
  /\ UNCHANGED <<jobs, jobs_ts, jobs_flag, JobObjects, clock, calls>>

\* line 192, the UPDATE's scan: the rows of its statement snapshot that
\* satisfy the WHERE clause.
FlagUpdateScan(c) ==
  /\ pc[c] = "flag_update"
  /\ loc' = [loc EXCEPT ![c].targets =
               {r.uid : r \in {s \in JobsFlagView(c) : IsCurrentOf(s, call[c].id)}}]
  /\ Goto(c, "flag_lock")
  /\ UNCHANGED <<jobs, jobs_ts, jobs_flag, JobObjects, clock, call, txn, calls>>

\* line 192, the UPDATE's writes: it waits for the transactions that hold a
\* lock on a row it found, re-checks the WHERE clause on the row as it then
\* is, and clears is_current on the rows that still satisfy it.
FlagUpdateApply(c) ==
  /\ pc[c] = "flag_lock"
  /\ \A d \in Conns \ {c} : loc[c].targets \cap txn[d].cleared = {}
  /\ txn' = [txn EXCEPT ![c].cleared = @ \cup
               {r.uid : r \in {s \in JobsFlagView(c) :
                                 s.uid \in loc[c].targets /\ IsCurrentOf(s, call[c].id)}}]
  /\ Goto(c, "flag_max")
  /\ UNCHANGED <<jobs, jobs_ts, jobs_flag, JobObjects, clock, call, loc, calls>>

\* line 195: SELECT COALESCE(MAX(version), 0)
FlagSelectMax(c) ==
  /\ pc[c] = "flag_max"
  /\ loc' = [loc EXCEPT ![c].max_version =
               Max({r.version : r \in {s \in JobsFlagView(c) : s.id = call[c].id}} \cup {0})]
  /\ Goto(c, "flag_original")
  /\ UNCHANGED <<jobs, jobs_ts, jobs_flag, JobObjects, clock, call, txn, calls>>

\* line 199: SELECT * WHERE id = %s AND version = %s; fetchone()
FlagSelectOriginal(c) ==
  /\ pc[c] = "flag_original"
  /\ loc' = [loc EXCEPT ![c].original =
               {r \in JobsFlagView(c) : r.id = call[c].id /\ r.version = loc[c].max_version}]
  /\ Goto(c, "flag_insert")
  /\ UNCHANGED <<jobs, jobs_ts, jobs_flag, JobObjects, clock, call, txn, calls>>

\* lines 203-211: original[4] raises TypeError when original is None;
\* otherwise the INSERT, which waits while another transaction holds its key.
FlagInsert(c) ==
  /\ pc[c] = "flag_insert"
  /\ IF loc[c].original = {}
       THEN /\ Raise(c, call[c].helper, call[c].id, "TypeError")
            /\ UNCHANGED txn
       ELSE LET original == CHOOSE r \in loc[c].original : TRUE
                new_row == FlagNewRow(call[c].id, loc[c].max_version, original,
                                      call[c].updates, uuid4)
            IN /\ \A d \in Conns \ {c} :
                    \A s \in txn[d].jobs_flag : ~VersionKeyConflict(new_row, s)
               /\ IF \E s \in JobsFlagView(c) : VersionKeyConflict(new_row, s)
                    THEN /\ txn' = [txn EXCEPT ![c] = [NoTxn EXCEPT !.status = "inerror"]]
                         /\ Raise(c, call[c].helper, call[c].id, "UniqueViolation")
                    ELSE /\ txn' = [txn EXCEPT ![c].jobs_flag = @ \cup {new_row}]
                         /\ Goto(c, "flag_commit")
                         /\ loc' = [loc EXCEPT ![c].new_row = {new_row}]
                         /\ UNCHANGED call
  /\ UNCHANGED <<jobs, jobs_ts, jobs_flag, JobObjects, clock, calls>>

\* cursor.execute("COMMIT"); self.conn.commit(); cursor.close()
FlagCommit(c) ==
  /\ pc[c] = "flag_commit"
  /\ CommitTxn(c)
  /\ Return(c)
  /\ UNCHANGED <<JobObjects, clock, calls>>

\* ------------------------------------------------------------ Django helpers
\* Job.uid is the primary key; the model declares no key on (id, version).
\* None, as the value of uid:
NoPk == 0

\* The update_fn arguments callers pass: each sets the attributes it names
\* on new_version.  A caller has to set uid (pk was reset to None); it may
\* pick a uid that a row already carries.
\* The uids it picks here: that of job1's second version, which the
\* timelogs and payment line items of setup_test_data reference, or one of
\* those no row of setup_test_data carries.
UidChoices == {2, 4, 5}

UpdateFns ==
  {EmptyMap}
    \cup {[uid |-> u] : u \in UidChoices}
    \cup {[uid |-> 4, status |-> "inactive"]}

\* update_fn(new_version)
ApplyUpdateFn(new_version, update_fn) ==
  [f \in DOMAIN new_version |->
     IF f \in DOMAIN update_fn THEN update_fn[f] ELSE new_version[f]]

\* lines 23-26: pk = None; version += 1; update_fn(new_version)
DjNewVersion(fetched, update_fn) ==
  ApplyUpdateFn([fetched EXCEPT !.uid = NoPk, !.version = fetched.version + 1], update_fn)

\* line 20: model.objects.filter(id=id).order_by('-version').first(); among
\* rows that tie on version the store returns any one.
DjLatest(c, id_value, update_fn) ==
  /\ pc[c] = "idle"
  /\ calls < MaxCalls
  /\ calls' = calls + 1
  /\ LET rows == LatestByVersion(JobObjects, id_value)
     IN IF rows = {}
          THEN Raise(c, "django", id_value, "NotFound")
          ELSE /\ \E latest \in rows : loc' = [loc EXCEPT ![c] = [NoLoc EXCEPT !.latest = {latest}]]
               /\ Goto(c, "dj_get")
               /\ call' = [call EXCEPT ![c] =
                            [helper |-> "django", id |-> id_value, updates |-> update_fn]]
  /\ UNCHANGED <<jobs, jobs_ts, jobs_flag, JobObjects, clock, txn>>

\* lines 23-26: model.objects.get(pk=latest.pk), then the new instance is
\* derived in memory.
DjGet(c) ==
  /\ pc[c] = "dj_get"
  /\ LET latest == CHOOSE r \in loc[c].latest : TRUE
         fetched == {r \in JobObjects : r.uid = latest.uid}
     IN IF fetched = {}
          THEN Raise(c, call[c].helper, call[c].id, "DoesNotExist")
          ELSE /\ loc' = [loc EXCEPT ![c].new_row =
                            {DjNewVersion(CHOOSE r \in fetched : TRUE, call[c].updates)}]
               /\ Goto(c, "dj_save")
               /\ UNCHANGED call
  /\ UNCHANGED <<jobs, jobs_ts, jobs_flag, JobObjects, clock, txn, calls>>

\* Model.save() of an instance that was loaded from the table: with a pk
\* set it first runs UPDATE ... WHERE uid = pk, and inserts only when that
\* matched no row; without a pk it inserts at once, and the NULL key is
\* rejected.
DjSaveOverwrites(new_version) == \E r \in JobObjects : r.uid = new_version.uid

DjSaveUpdate(c) ==
  /\ pc[c] = "dj_save"
  /\ LET new_version == CHOOSE r \in loc[c].new_row : TRUE
     IN IF new_version.uid = NoPk
          THEN /\ Raise(c, call[c].helper, call[c].id, "IntegrityError")
               /\ UNCHANGED JobObjects
          ELSE IF DjSaveOverwrites(new_version)
            THEN /\ JobObjects' =
                      {r \in JobObjects : r.uid # new_version.uid} \cup {new_version}
                 /\ Return(c)
            ELSE /\ Goto(c, "dj_insert")
                 /\ UNCHANGED <<JobObjects, call, loc>>
  /\ UNCHANGED <<jobs, jobs_ts, jobs_flag, clock, txn, calls>>

\* Model.save(): the INSERT that follows an UPDATE of no row.
DjSaveInsert(c) ==
  /\ pc[c] = "dj_insert"
  /\ LET new_version == CHOOSE r \in loc[c].new_row : TRUE
     IN IF \E r \in JobObjects : r.uid = new_version.uid
          THEN /\ Raise(c, call[c].helper, call[c].id, "IntegrityError")
               /\ UNCHANGED JobObjects
          ELSE /\ JobObjects' = JobObjects \cup {new_version}
               /\ Return(c)
  /\ UNCHANGED <<jobs, jobs_ts, jobs_flag, clock, txn, calls>>

\* latest_scd_queryset: base_queryset.filter(version=Subquery(max version of
\* the rows of the model with the outer row's id))
MaxVersionSubquery(model, outer_id) ==
  {Max({s.version : s \in {t \in model : t.id = outer_id}})}

latest_scd_queryset(model, base_queryset) ==
  LET base == IF base_queryset = {} THEN model ELSE base_queryset
  IN  {r \in base : {r.version} = MaxVersionSubquery(model, r.id)}

\* repos.py
\* Variant of find_active_jobs_by_company that filters on status and company
\* before taking the latest version of each id.
find_active_jobs_by_company_FilterFirst(company_id) ==
  LET matching == {r \in JobObjects : r.status = "active" /\ r.company_id = company_id}
  IN  {r \in matching : \A s \in matching : s.id = r.id => s.version <= r.version}

find_active_jobs_by_company(company_id) ==
  {r \in latest_scd_queryset(JobObjects, JobObjects) :
     r.status = "active" /\ r.company_id = company_id}

find_active_jobs_by_contractor(contractor_id) ==
  {r \in latest_scd_queryset(JobObjects, JobObjects) :
     r.status = "active" /\ r.contractor_id = contractor_id}

\* ------------------------------------------------------------ get_latest_versions
\* SCDHelper.get_latest_versions: t1 JOIN (SELECT id, MAX(version) GROUP BY id) t2
\* ON t1.id = t2.id AND t1.version = t2.max_version
SCDHelper_get_latest_versions(rows) ==
  LET t2 == {[id |-> i, max_version |-> Max({r.version : r \in {t \in rows : t.id = i}})] :
               i \in {r.id : r \in rows}}
  IN  {t1 \in rows : \E g \in t2 : t1.id = g.id /\ t1.version = g.max_version}

\* TimestampVersioningHelper.get_latest_versions: the same join on MAX(created_at)
TimestampVersioningHelper_get_latest_versions(rows) ==
  LET t2 == {[id |-> i, max_created |-> Max({r.created_at : r \in {t \in rows : t.id = i}})] :
               i \in {r.id : r \in rows}}
  IN  {t1 \in rows : \E g \in t2 : t1.id = g.id /\ t1.created_at = g.max_created}

\* FlagVersioningHelper.get_latest_versions: SELECT * WHERE is_current = true
FlagVersioningHelper_get_latest_versions(rows) ==
  {r \in rows : r.is_current}

\* ------------------------------------------------------------ specifications
NextScd ==
  \E c \in Conns :
    \/ UNCHANGED bench /\ \E id_value \in CallIds, updates \in UpdatesSet : ScdSelect(c, id_value, updates)
    \/ UNCHANGED bench /\ ScdInsert(c)
    \/ UNCHANGED bench /\ ScdCommit(c)
    \/ UNCHANGED bench /\ Close(c)

SpecScd == Init /\ [][NextScd]_vars

NextTs ==
  \/ UNCHANGED bench /\ Tick
  \/ \E c \in Conns :
       \/ UNCHANGED bench /\ \E id_value \in CallIds, updates \in UpdatesSet : TsSelect(c, id_value, updates)
       \/ UNCHANGED bench /\ TsInsert(c)
       \/ UNCHANGED bench /\ TsCommit(c)
       \/ UNCHANGED bench /\ Close(c)

SpecTs == Init /\ [][NextTs]_vars

NextFlag ==
  \E c \in Conns :
    \/ UNCHANGED bench /\ \E id_value \in CallIds, updates \in UpdatesSet : FlagBegin(c, id_value, updates)
    \/ UNCHANGED bench /\ FlagUpdateScan(c)
    \/ UNCHANGED bench /\ FlagUpdateApply(c)
    \/ UNCHANGED bench /\ FlagSelectMax(c)
    \/ UNCHANGED bench /\ FlagSelectOriginal(c)
    \/ UNCHANGED bench /\ FlagInsert(c)
    \/ UNCHANGED bench /\ FlagCommit(c)
    \/ UNCHANGED bench /\ Close(c)

SpecFlag == Init /\ [][NextFlag]_vars

NextDjango ==
  \E c \in Conns :
    \/ UNCHANGED bench /\ \E id_value \in CallIds, update_fn \in UpdateFns : DjLatest(c, id_value, update_fn)
    \/ UNCHANGED bench /\ DjGet(c)
    \/ UNCHANGED bench /\ DjSaveUpdate(c)
    \/ UNCHANGED bench /\ DjSaveInsert(c)

SpecDjango == Init /\ [][NextDjango]_vars

\* SCDHelper and DirectSQLHelper on table jobs, called with updates maps
\* that name neither id nor version.
KeepsKeyUpdates ==
  {[status |-> "updated", rate |-> 150], [rate |-> 200], [title |-> "Lead"]}

NextJobs ==
  \E c \in Conns :
    \/ UNCHANGED bench /\ \E id_value \in Ids, updates \in KeepsKeyUpdates : ScdSelect(c, id_value, updates)
    \/ UNCHANGED bench /\ ScdInsert(c)
    \/ UNCHANGED bench /\ ScdCommit(c)
    \/ UNCHANGED bench /\ \E id_value \in CallIds, updates \in KeepsKeyUpdates : DirectSelectMax(c, id_value, updates)
    \/ UNCHANGED bench /\ DirectInsert(c)
    \/ UNCHANGED bench /\ DirectCommit(c)
    \/ UNCHANGED bench /\ Close(c)

SpecJobs == Init /\ [][NextJobs]_vars

\* FlagVersioningHelper in a sequential execution: a call starts when no
\* call is under way on any connection.
NextFlagSeq ==
  \E c \in Conns :
    \/ /\ UNCHANGED bench
       /\ \A d \in Conns : pc[d] = "idle"
       /\ \E id_value \in CallIds, updates \in UpdatesSet : FlagBegin(c, id_value, updates)
    \/ UNCHANGED bench /\ FlagUpdateScan(c)
    \/ UNCHANGED bench /\ FlagUpdateApply(c)
    \/ UNCHANGED bench /\ FlagSelectMax(c)
    \/ UNCHANGED bench /\ FlagSelectOriginal(c)
    \/ UNCHANGED bench /\ FlagInsert(c)
    \/ UNCHANGED bench /\ FlagCommit(c)
    \/ UNCHANGED bench /\ Close(c)

SpecFlagSeq == Init /\ [][NextFlagSeq]_vars

\* FlagVersioningHelper whose calls may also end in an exception raised in
\* the client, after the UPDATE and before the INSERT is done.
NextFlagRaise ==
  \E c \in Conns :
    \/ UNCHANGED bench /\ \E id_value \in CallIds : FlagBegin(c, id_value, EmptyMap)
    \/ UNCHANGED bench /\ FlagUpdateScan(c)
    \/ UNCHANGED bench /\ FlagUpdateApply(c)
    \/ UNCHANGED bench /\ FlagSelectMax(c)
    \/ UNCHANGED bench /\ FlagSelectOriginal(c)
    \/ UNCHANGED bench /\ FlagInsert(c)
    \/ UNCHANGED bench /\ FlagCommit(c)
    \/ UNCHANGED bench /\ Close(c)
    \/ UNCHANGED bench /\ pc[c] \in {"flag_max", "flag_original", "flag_insert"} /\ ClientError(c)

SpecFlagRaise == Init /\ [][NextFlagRaise]_vars

\* run_benchmarks: one connection, shared by the helpers; each (job_id, updates)
\* is given to SCDHelper, to TimestampVersioningHelper and to
\* FlagVersioningHelper, a call starting when the one before it has ended.
BenchConn == "c1"

\* bench.ok stays TRUE while no call has ended in an exception.
BenchOk == bench.ok /\ ~(pc'[BenchConn] = "idle" /\ result'[BenchConn].kind \notin {"none", "ok"})

BenchScdCreate ==
  \E id_value \in CallIds, updates \in UpdatesSet :
    /\ bench.next = "scd"
    /\ pc[BenchConn] = "idle"
    /\ ScdSelect(BenchConn, id_value, updates)
    /\ bench' = [next |-> "ts", id |-> id_value, updates |-> updates, ok |-> BenchOk]

BenchTsCreate ==
  /\ bench.next = "ts"
  /\ pc[BenchConn] = "idle"
  /\ TsSelect(BenchConn, bench.id, bench.updates)
  /\ bench' = [bench EXCEPT !.next = "flag", !.ok = BenchOk]

BenchFlagCreate ==
  /\ bench.next = "flag"
  /\ pc[BenchConn] = "idle"
  /\ FlagBegin(BenchConn, bench.id, bench.updates)
  /\ bench' = [bench EXCEPT !.next = "scd", !.ok = BenchOk]

\* A call under way takes its next step.
BenchStep ==
  /\ \/ ScdInsert(BenchConn) \/ ScdCommit(BenchConn)
     \/ TsInsert(BenchConn) \/ TsCommit(BenchConn)
     \/ FlagUpdateScan(BenchConn) \/ FlagUpdateApply(BenchConn) \/ FlagSelectMax(BenchConn)
     \/ FlagSelectOriginal(BenchConn) \/ FlagInsert(BenchConn) \/ FlagCommit(BenchConn)
  /\ bench' = [bench EXCEPT !.ok = BenchOk]

NextBench ==
  \/ BenchScdCreate
  \/ BenchTsCreate
  \/ BenchFlagCreate
  \/ BenchStep
  \/ UNCHANGED bench /\ Tick
  \/ UNCHANGED bench /\ Close(BenchConn)

SpecBench == Init /\ [][NextBench]_vars

\* ------------------------------------------------------------ claims
IdsOf(rows) == {r.id : r \in rows}

\* C1: in every committed state of jobs_flag, every id that has a row has
\* exactly one row with is_current = true.
C1_CurrentUniqueness ==
  \A id_value \in IdsOf(jobs_flag) :
    Cardinality({r \in jobs_flag : r.id = id_value /\ r.is_current}) = 1

\* C2: the Job table never holds two rows that share (id, version).
C2_NoDuplicateVersion ==
  \A r, s \in JobObjects : (r.id = s.id /\ r.version = s.version) => r = s

\* C3: no two committed rows of jobs share (id, version); two inserts of the
\* same (id, version) are never both pending; and a call that ended in a
\* unique violation has no write left to commit.
C3_OneRacerCommits ==
  /\ \A r, s \in jobs : (r.id = s.id /\ r.version = s.version) => r = s
  /\ \A c, d \in Conns :
       \A r \in txn[c].jobs : \A s \in jobs \cup txn[d].jobs :
         (r.id = s.id /\ r.version = s.version) => r = s
  /\ \A c \in Conns :
       (pc[c] = "idle" /\ result[c].kind = "UniqueViolation")
         => (txn[c].jobs = {} /\ txn[c].status # "intrans")

\* Two calls raced on job1: both read version 1; one has committed version
\* 2 and returned, the other ended in a unique violation with nothing
\* committed.
C3_Witness ==
  \E c, d \in Conns :
    /\ result[c] = Outcome("scd", "job1", "ok")
    /\ result[d] = Outcome("scd", "job1", "UniqueViolation")
    /\ pc[c] = "idle" /\ pc[d] = "idle"
    /\ Cardinality({r \in jobs : r.id = "job1"}) = 2
    /\ \E r \in jobs : r.id = "job1" /\ r.version = 2

\* The business fields of a row.
BusinessFields == {"status", "rate", "title", "company_id", "contractor_id"}

UidsOf(rows) == {r.uid : r \in rows}

\* In this step connection c's call returns.
Returns(c) == pc[c] # "idle" /\ pc'[c] = "idle" /\ result'[c].kind = "ok"

\* In this step a call of connection c ends, by returning or by raising.
Ends(c) == pc'[c] = "idle" /\ (pc[c] # "idle" \/ result'[c] # result[c])

\* C4: a row added to a table has a discriminator (version, or created_at)
\* greater than that of every row its id already had, so the discriminators
\* of an id in insertion order are strictly increasing.
C4_Monotonicity ==
  [][ /\ \A r \in jobs' \ jobs :
           \A s \in jobs : s.id = r.id => s.version < r.version
      /\ \A r \in jobs_ts' \ jobs_ts :
           \A s \in jobs_ts : s.id = r.id => s.created_at < r.created_at
      /\ \A r \in {t \in jobs_flag' : t.uid \notin UidsOf(jobs_flag)} :
           \A s \in jobs_flag : s.id = r.id => s.version < r.version ]_vars

\* C5: no step changes a row that exists, other than jobs_flag's is_current
\* going from true to false.
C5_ExistingRowsUnchanged ==
  [][ /\ jobs \subseteq jobs'
      /\ jobs_ts \subseteq jobs_ts'
      /\ JobObjects \subseteq JobObjects'
      /\ \A r \in jobs_flag :
           \/ r \in jobs_flag'
           \/ r.is_current /\ [r EXCEPT !.is_current = FALSE] \in jobs_flag' ]_vars

\* C6: the step in which a benchmark helper's call returns adds exactly one
\* row to the helper's table, with the id the call was given, and removes none.
C6_ExactlyOneRowAdded ==
  [][ \A c \in Conns :
        Returns(c) =>
          /\ call[c].helper = "scd" =>
               /\ jobs \subseteq jobs'
               /\ \E r \in jobs' : jobs' \ jobs = {r} /\ r.id = call[c].id
          /\ call[c].helper = "ts" =>
               /\ jobs_ts \subseteq jobs_ts'
               /\ \E r \in jobs_ts' : jobs_ts' \ jobs_ts = {r} /\ r.id = call[c].id
          /\ call[c].helper = "flag" =>
               /\ UidsOf(jobs_flag) \subseteq UidsOf(jobs_flag')
               /\ \E r \in jobs_flag' :
                    /\ UidsOf(jobs_flag') \ UidsOf(jobs_flag) = {r.uid}
                    /\ r.id = call[c].id ]_vars

\* The rows a call of helper on connection c for id_value can read.
RowsFor(c, helper, id_value) ==
  IF helper \in {"scd", "direct"} THEN {r \in JobsView(c) : r.id = id_value}
  ELSE IF helper = "ts" THEN {r \in JobsTsView(c) : r.id = id_value}
  ELSE IF helper = "flag" THEN {r \in JobsFlagView(c) : r.id = id_value}
  ELSE {r \in JobObjects : r.id = id_value}

\* C7: a call for an id that has no row (on a connection whose transaction
\* has not failed) ends in NotFound, and the step changes no table and no
\* uncommitted write.
C7_NotFound ==
  [][ \A c \in Conns :
        ( /\ Ends(c)
          /\ result'[c].kind # "InFailedSqlTransaction"
          /\ RowsFor(c, result'[c].helper, result'[c].id) = {} )
        => /\ result'[c].kind = "NotFound"
           /\ UNCHANGED <<jobs, jobs_ts, jobs_flag, JobObjects>>
           /\ txn'[c].jobs = txn[c].jobs
           /\ txn'[c].jobs_ts = txn[c].jobs_ts
           /\ txn'[c].jobs_flag = txn[c].jobs_flag
           /\ txn'[c].cleared = txn[c].cleared ]_vars

\* C8: the row a benchmark helper has inserted carries, for each business
\* field, the value updates gives it, or else the value of the row the
\* helper read as the id's current one.
C8_UpdatesApplied ==
  \A c \in Conns :
    pc[c] \in {"scd_commit", "ts_commit", "flag_commit"} =>
      \A new \in loc[c].new_row :
        \A cur \in (IF pc[c] = "flag_commit" THEN loc[c].original ELSE loc[c].latest) :
          \A f \in BusinessFields :
            new[f] = Get(call[c].updates, f, cur[f])

\* C9: no table holds two rows with one uid, and the row a create has made
\* when it returns carries a uid no row of its table had before.
C9_FreshUid ==
  [][ /\ \A r, s \in jobs' : r.uid = s.uid => r = s
      /\ \A r, s \in JobObjects' : r.uid = s.uid => r = s
      /\ \A c \in Conns :
           Returns(c) =>
             \A new \in loc[c].new_row :
               /\ call[c].helper = "scd" => new.uid \notin UidsOf(jobs)
               /\ call[c].helper = "django" => new.uid \notin UidsOf(JobObjects) ]_vars

\* C10: find_active_jobs_by_company(c) is the set of rows that have the
\* maximum version of their id, status 'active' and company_id c; likewise
\* find_active_jobs_by_contractor.
IsMaxVersionOfItsId(r) == \A s \in JobObjects : s.id = r.id => s.version <= r.version

C10_FindActiveJobs ==
  /\ \A company_id \in Companies :
       find_active_jobs_by_company(company_id) =
         {r \in JobObjects :
            IsMaxVersionOfItsId(r) /\ r.status = "active" /\ r.company_id = company_id}
  /\ \A contractor_id \in {"cont1", "cont2"} :
       find_active_jobs_by_contractor(contractor_id) =
         {r \in JobObjects :
            IsMaxVersionOfItsId(r) /\ r.status = "active" /\ r.contractor_id = contractor_id}

\* job1's latest version is inactive while an older version of job1 is
\* active for comp1: job1 is absent from the result, job2 is in it.
C10_Witness ==
  /\ \E r \in JobObjects : r.id = "job1" /\ r.status = "active" /\ r.company_id = "comp1"
  /\ \E r \in JobObjects : r.id = "job1" /\ IsMaxVersionOfItsId(r) /\ r.status = "inactive"
  /\ "job1" \notin IdsOf(find_active_jobs_by_company("comp1"))
  /\ "job2" \in IdsOf(find_active_jobs_by_company("comp1"))

\* rows holds exactly one row of every id that all has, and no other row.
OneRowPerId(rows, all) ==
  /\ rows \subseteq all
  /\ \A i \in IdsOf(all) : Cardinality({r \in rows : r.id = i}) = 1

\* C11: on the committed tables, get_latest_versions of each of the three
\* helpers returns exactly one row for every id present in its table, and
\* no other row.
C11_OneLatestRowPerId ==
  /\ OneRowPerId(SCDHelper_get_latest_versions(jobs), jobs)
  /\ OneRowPerId(TimestampVersioningHelper_get_latest_versions(jobs_ts), jobs_ts)
  /\ OneRowPerId(FlagVersioningHelper_get_latest_versions(jobs_flag), jobs_flag)

\* A row compared on (id, status, rate, title, company_id, contractor_id).
Content(r) == [f \in BusinessFields \cup {"id"} |-> r[f]]

\* C12: when every helper has been given the same calls and none has
\* failed, the three get_latest_versions results have the same content.
C12_SameLatestContent ==
  (bench.next = "scd" /\ pc[BenchConn] = "idle" /\ bench.ok) =>
    LET scd == {Content(r) : r \in SCDHelper_get_latest_versions(jobs)}
        ts == {Content(r) : r \in TimestampVersioningHelper_get_latest_versions(jobs_ts)}
        flag == {Content(r) : r \in FlagVersioningHelper_get_latest_versions(jobs_flag)}
    IN  scd = ts /\ ts = flag

\* The call of connection c read its latest row, and rows now holds a
\* newer version of the call's id.
Superseded(c, rows) ==
  \E r \in rows : r.id = call[c].id /\ \A l \in loc[c].latest : r.version > l.version

\* after \ before is one row, of the call's id, whose version is one more
\* than the greatest version the id had in before.
CommitsNextFreeVersion(c, before, after) ==
  \E new \in after \ before :
    /\ after \ before = {new}
    /\ new.id = call[c].id
    /\ new.version = 1 + Max({r.version : r \in {t \in before : t.id = call[c].id}})

\* C13: a call of SCDHelper.create_new_version or create_new_scd_version
\* (given a uid no row carries) that ends after another writer has
\* committed a newer version of its id since its read either commits a row
\* with the next free version or ends in Conflict.
C13_RetryOrConflict ==
  [][ \A c \in Conns :
        /\ ( /\ pc[c] # "idle" /\ pc'[c] = "idle"
             /\ call[c].helper = "scd"
             /\ Superseded(c, jobs) )
           => \/ result'[c].kind = "Conflict"
              \/ result'[c].kind = "ok" /\ CommitsNextFreeVersion(c, jobs, jobs')
        /\ ( /\ pc[c] # "idle" /\ pc'[c] = "idle"
             /\ call[c].helper = "django"
             /\ Get(call[c].updates, "uid", NoPk) \notin UidsOf(JobObjects) \cup {NoPk}
             /\ Superseded(c, JobObjects) )
           => \/ result'[c].kind = "Conflict"
              \/ result'[c].kind = "ok" /\ CommitsNextFreeVersion(c, JobObjects, JobObjects') ]_vars

\* The statement the call of connection c is at waits for the transaction
\* of connection d: the key of the row it inserts, or a row its UPDATE
\* found, is held by d uncommitted.
WaitsFor(c, d) ==
  \/ /\ pc[c] = "scd_insert"
     /\ \E latest \in loc[c].latest : \E s \in txn[d].jobs :
          VersionKeyConflict(ScdNewData(latest, call[c].updates, uuid4), s)
  \/ /\ pc[c] = "ts_insert"
     /\ \E latest \in loc[c].latest : \E s \in txn[d].jobs_ts :
          TimestampKeyConflict(TsNewRow(call[c].id, latest, call[c].updates, clock, uuid4), s)
  \/ /\ pc[c] = "flag_lock"
     /\ loc[c].targets \cap txn[d].cleared # {}
  \/ /\ pc[c] = "flag_insert"
     /\ \E original \in loc[c].original : \E s \in txn[d].jobs_flag :
          VersionKeyConflict(
            FlagNewRow(call[c].id, loc[c].max_version, original, call[c].updates, uuid4), s)

\* C14: of two calls under way for different ids, neither waits for the other.
C14_DifferentIdsIndependent ==
  \A c, d \in Conns :
    (c # d /\ pc[c] # "idle" /\ pc[d] # "idle" /\ call[c].id # call[d].id)
      => ~WaitsFor(c, d)

\* The discriminator of a row: created_at in jobs_ts, version elsewhere.
Disc(r) == IF "created_at" \in DOMAIN r THEN r.created_at ELSE r.version

\* The committed rows of the table the call of connection c writes.
CommittedTable(c) ==
  IF call[c].helper \in {"scd", "direct"} THEN jobs
  ELSE IF call[c].helper = "ts" THEN jobs_ts
  ELSE IF call[c].helper = "flag" THEN jobs_flag
  ELSE JobObjects

\* The rows of rows that come just before new in the order of its id's versions.
Predecessors(new, rows) ==
  {p \in rows :
     /\ p.id = new.id /\ Disc(p) < Disc(new)
     /\ \A q \in rows : (q.id = new.id /\ Disc(q) < Disc(new)) => Disc(q) <= Disc(p)}

\* C15: when a create commits its row, each business field that the call's
\* updates do not name has the value it has in the committed row that comes
\* just before the new row in its id's version order.
C15_NoLostUpdate ==
  [][ \A c \in Conns :
        Returns(c) =>
          \A new \in loc[c].new_row : \A p \in Predecessors(new, CommittedTable(c)) :
            \A f \in BusinessFields \ DOMAIN call[c].updates : new[f] = p[f] ]_vars

\* C16: the committed tables change only in the step in which a call
\* returns, and only by that call's writes: the row it inserted and, in
\* jobs_flag, cleared flags of rows of its id.  Nothing that a call which
\* ended in an exception wrote is ever committed.
C16_OnlyReturningCallsWritesCommitted ==
  [][ /\ (\A c \in Conns : ~Returns(c)) => UNCHANGED <<jobs, jobs_ts, jobs_flag>>
      /\ \A c \in Conns :
           Returns(c) =>
             /\ jobs' \ jobs \subseteq loc[c].new_row
             /\ jobs_ts' \ jobs_ts \subseteq loc[c].new_row
             /\ \A r \in jobs_flag' \ jobs_flag :
                  \/ r \in loc[c].new_row
                  \/ /\ r.id = call[c].id
                     /\ ~r.is_current
                     /\ [r EXCEPT !.is_current = TRUE] \in jobs_flag ]_vars

\* The rows of rows that are current for id_value.
CurrentRows(rows, id_value) == {r \in rows : r.id = id_value /\ r.is_current}

C18_ReferencesStable ==
  \A d \in SeedTimelogs \cup SeedPaymentLineItems :
    \E j \in JobObjects : j.uid = d.job_uid /\ j \in setup_test_data

\* C19: for every base_queryset B over Job, the empty one included,
\* latest_scd_queryset(Job, B) is the set of the rows of B whose version is
\* the greatest among the rows of Job with their id.
C19_LatestOfBaseQueryset ==
  \A B \in SUBSET JobObjects :
    latest_scd_queryset(JobObjects, B) = {r \in B : IsMaxVersionOfItsId(r)}

\* C20: no FlagVersioningHelper call returns for an id that has no current
\* row, or more than one, both in what the call's UPDATE found and in the
\* committed table at the time of its commit.
C20_AbortsWithoutOneCurrentRow ==
  [][ \A c \in Conns :
        (Returns(c) /\ call[c].helper = "flag") =>
          \/ Cardinality(loc[c].targets) = 1
          \/ Cardinality(CurrentRows(jobs_flag, call[c].id)) = 1 ]_vars

\* C21: in the committed jobs_flag, every row with is_current = true has
\* the greatest version of its id.
C21_CurrentIsMaxVersion ==
  \A r \in jobs_flag :
    r.is_current => \A s \in jobs_flag : s.id = r.id => s.version <= r.version

\* The versions the rows of id_value have in table jobs.
VersionsOf(id_value) == {r.version : r \in {s \in jobs : s.id = id_value}}

\* C22: in every state of jobs reached from the seed by SCDHelper and
\* DirectSQLHelper calls whose updates name neither id nor version, the
\* versions of each id are exactly 1..k for some k >= 1, each on one row:
\* no gap and no duplicate.
C22_VersionsContiguous ==
  \A id_value \in IdsOf(jobs) :
    /\ VersionsOf(id_value) = 1..Cardinality(VersionsOf(id_value))
    /\ Cardinality({r \in jobs : r.id = id_value}) = Cardinality(VersionsOf(id_value))

\* C22: an id has versions 1, 2 and 3 after a call of each helper on it
\* returned.
C22_Witness ==
  \E id_value \in Ids, c, d \in Conns :
    /\ VersionsOf(id_value) = {1, 2, 3}
    /\ result[c] = Outcome("scd", id_value, "ok")
    /\ result[d] = Outcome("direct", id_value, "ok")

\* A row without its uid column.
WithoutUid(r) == [col \in DOMAIN r \ {"uid"} |-> r[col]]

\* The rows, without uid, that SCDHelper.create_new_version(jobs, id_value,
\* updates) inserts when it is applied to the table as connection c sees it.
ScdInserts(c, id_value, updates) ==
  {WithoutUid(ScdNewData(latest, updates, uuid4)) :
     latest \in LatestByVersion(JobsView(c), id_value)}

\* The rows, without uid, that DirectSQLHelper.create_new_version(jobs,
\* id_value, updates) inserts when it is applied to the table as connection c
\* sees it.
DirectInserts(c, id_value, updates) ==
  LET max_version == Max({r.version : r \in {s \in JobsView(c) : s.id = id_value}} \cup {0})
  IN {WithoutUid(DirectNewRow(src, max_version + 1, updates, uuid4)) :
        src \in {r \in JobsView(c) : r.id = id_value /\ r.version = max_version}}

\* C23: whenever a call of SCDHelper or DirectSQLHelper.create_new_version
\* whose updates hold only status and/or rate inserts into jobs, the rows it
\* inserts are, in every column except uid, the rows the other helper inserts
\* when it is applied to the same table state with the same id and updates.
C23_SameRowExceptUid ==
  [][ \A c \in Conns :
        ( /\ call[c].helper \in {"scd", "direct"}
          /\ DOMAIN call[c].updates \subseteq {"status", "rate"}
          /\ txn'[c].jobs \ txn[c].jobs # {} )
        => {WithoutUid(r) : r \in txn'[c].jobs \ txn[c].jobs}
             = IF call[c].helper = "scd"
                 THEN DirectInserts(c, call[c].id, call[c].updates)
                 ELSE ScdInserts(c, call[c].id, call[c].updates) ]_vars

\* C23: a DirectSQLHelper call given only a rate has inserted version 3 of
\* an id whose status an earlier call had updated.
C23_Witness ==
  \E c \in Conns :
    /\ pc[c] = "direct_commit"
    /\ call[c].updates = [rate |-> 200]
    /\ \E r \in txn[c].jobs : r.id = call[c].id /\ r.version = 3 /\ r.status = "updated" /\ r.rate = 200
====
